---------------------------- MODULE Spec2Model ----------------------------
(***************************************************************************)
(* jdn-dss: the MLB schedule aggregation (dss_mlb/src/lib.rs) and the      *)
(* focus navigation of the grid drawn over its result                      *)
(* (dss_main/src/gl_mlb.rs, dss_main/src/main.rs).                         *)
(*                                                                         *)
(* Two specifications share the variables:                                 *)
(*   Spec     MlbManager::get_games run statement by statement against a   *)
(*            remote API whose answers are chosen when each call           *)
(*            completes, followed by the construction of the rows          *)
(*            (MlbUiInfo::init / the head of main).                        *)
(*   NavSpec  the arrow-key navigation over constructed rows, for rows     *)
(*            long enough to scroll.                                       *)
(* Indices kept by the code (focused_day, focused_index, begin_index) are  *)
(* 0-based as in the source; TLA+ sequences are 1-based, so the code's     *)
(* v[i] is v[i + 1] here.                                                  *)
(***************************************************************************)
EXTENDS Integers, Sequences, FiniteSets, TLC

VARIABLES
  timezone,       \* get_games: `timezone`, the local UTC offset in hours
  pc,             \* position of the program
  i,              \* get_games: index into `offsets` of the day in progress
  result,         \* get_games: `result`, one entry per day pushed so far
  day_result,     \* get_games: the decoded MlbGameRange of the day in progress
  game_idx,       \* extract_client_info: index of the game in progress
  games_out,      \* extract_client_info: `result`, the records pushed so far
  net,            \* the network call awaited, NoCall when none is
  outcome,        \* what get_games returned: "running", "Ok", "Err", "panic"
  fetches,        \* history: per offset, how its schedule fetch ended
  enriched,       \* history: the last game enrichment and how it ended
  decoded,        \* history: per offset, the payload its schedule decoded to
  served,         \* history: per offset, the games its schedule answered with
  issued,         \* history: the network calls issued, in order
  answered,       \* history: the network calls answered, in order
  variant,        \* which front end owns the rows: "gl_mlb" or "main"
  days,           \* MlbUiInfo.days / main's `days`: the rows
  focused_day,    \* MlbUiInfo.focused_day / main's focused_day
  focused_index,  \* MlbUiInfo.focused_index / main's focused_index
  fault,          \* "none", or the panic that ended the front end
  run             \* history: the run of consecutive Right keys just handled

aggVars == <<timezone, pc, i, result, day_result, game_idx, games_out, net,
             outcome, fetches, enriched, decoded, served, issued, answered>>
navVars == <<variant, days, focused_day, focused_index, fault, run>>
vars == <<timezone, pc, i, result, day_result, game_idx, games_out, net,
          outcome, fetches, enriched, decoded, served, issued, answered,
          variant, days, focused_day, focused_index, fault, run>>

---------------------------------------------------------------------------
(* Bounds of the model.                                                    *)

\* Most games in one dates entry of a schedule payload (Spec).
MaxGames == 2
\* Most games in one row of the grid (NavSpec); above both page sizes so
\* that windows scroll.
MaxRowLen == 7
\* Most consecutive Right keys followed by the history variable `run`.
MaxRun == 4

---------------------------------------------------------------------------
(* Program constants.                                                      *)

\* gl_mlb.rs: const X_PAGE_SIZE: usize = 5
X_PAGE_SIZE == 5
\* main.rs: const PAGE_SIZE: usize = 4
PAGE_SIZE == 4
\* lib.rs: let offsets: Vec<i64> = vec![-2, -1, 0]
offsets == <<-2, -1, 0>>

\* An Option<T> is a sequence: None is <<>> and Some(v) is <<v>>.
None == <<>>
Some(v) == <<v>>
NoCall == [kind |-> "none"]
\* No MlbGameRange is held.
NoRange == [dates |-> <<>>]

---------------------------------------------------------------------------
(* The remote API: what a schedule request can answer.                     *)

\* The fields of MlbGameInfo that extract_client_info reads.  editorial is
\* "none" (content.editorial absent), "no_mlb" (editorial.recap.mlb absent)
\* or "article"; gameDate is the UTC hour of the game.
Catalogue ==
  << [gamePk |-> 31, away |-> "Mets", home |-> "Cubs", gameDate |-> 23,
      editorial |-> "none", headline |-> "", src |-> ""],
     [gamePk |-> 12, away |-> "", home |-> "", gameDate |-> 2,
      editorial |-> "no_mlb", headline |-> "", src |-> ""],
     [gamePk |-> 25, away |-> "Cubs", home |-> "Reds", gameDate |-> 17,
      editorial |-> "article", headline |-> "Cubs walk off",
      src |-> "cuts/25.jpg"] >>

\* The game lists a dates entry can carry: distinct games, in any order.
GameLists(max) ==
  UNION { { s \in [1..n -> 1..Len(Catalogue)] :
              \A a, b \in 1..n : a # b => s[a] # s[b] } : n \in 0..max }

GamesOf(s) == [k \in 1..Len(s) |-> Catalogue[s[k]]]

\* The decoded payloads (MlbGameRange): no dates entry, one, or two (the
\* second one is there to be ignored).
Payloads ==
  { [dates |-> <<>>] }
  \cup { [dates |-> << [games |-> GamesOf(s)] >>] : s \in GameLists(MaxGames) }
  \cup { [dates |-> << [games |-> GamesOf(s)], [games |-> GamesOf(<<1>>)] >>] :
           s \in GameLists(MaxGames) }

\* The local UTC offsets tried.
TimeZones == {-5, 0}

\* The bytes an image request answers with.
ImageBytes(src) == <<"jpeg", src>>

---------------------------------------------------------------------------
(* extract_client_info: the pure parts.                                    *)

TwoDigits ==
  << "00", "01", "02", "03", "04", "05", "06", "07", "08", "09", "10", "11",
     "12", "13", "14", "15", "16", "17", "18", "19", "20", "21", "22", "23" >>

\* game.gameDate.parse::<DateTime<Utc>>().with_timezone(timezone), then its
\* Display: the local hour and the offset.
LocalTime(gameDate, tz) ==
  TwoDigits[((gameDate + tz) % 24) + 1] \o ":00 "
    \o (IF tz < 0 THEN "-" ELSE "+") \o TwoDigits[(IF tz < 0 THEN -tz ELSE tz) + 1]
    \o ":00"

\* let title = format!("{} at {}", teams.away.team.name, teams.home.team.name)
Title(game) == game.away \o " at " \o game.home

\* let default_summary = format!("Live {}", time)
DefaultSummary(game, tz) == "Live " \o LocalTime(game.gameDate, tz)

\* if let Some(editorial) = .. { if let Some(article) = .. {..} }
HasArticle(game) == game.editorial = "article"

\* RecordWithoutArticle with the game time left in UTC.
RecordWithoutArticle_Utc(game, tz) ==
  [title |-> Title(game), image |-> None, summary |-> DefaultSummary(game, 0)]

\* The record pushed for a game without an article: (None, default_summary).
RecordWithoutArticle(game, tz) ==
  [title |-> Title(game), image |-> None, summary |-> DefaultSummary(game, tz)]

\* RecordWithImage with the default kind of summary instead of the headline.
RecordWithImage_TitleAsSummary(game, bytes) ==
  [title |-> Title(game), image |-> Some(bytes), summary |-> Title(game)]

\* The record pushed once the image bytes arrived:
\* (Some(img_bytes), article.headline).
RecordWithImage(game, bytes) ==
  [title |-> Title(game), image |-> Some(bytes), summary |-> game.headline]

---------------------------------------------------------------------------
(* MlbManager::get_games and extract_client_info, statement by statement.  *)
(* Every `.await` is a step of its own: the call is issued, and a later    *)
(* step completes it, with success or failure.                             *)

\* No run of Right keys is under way.  `pristine` tells that no other key
\* has been handled since the rows were built.
NoRun == [n |-> 0, index0 |-> 0, begin0 |-> 0, pristine |-> TRUE]

\* An entry of get_games's `result`: the records of one day.  `date` is a
\* history field: the day offset the entry was fetched for.
DayEntry(date, games) == [date |-> date, games |-> games]

\* The game extract_client_info is working on: day_results.dates[0].games[game_idx].
CurrentGame == day_result.dates[1].games[game_idx + 1]

\* What extract_client_info returns at the end of its loop: Ok(result), or
\* Ok(vec![]) when dates.get(0) is None.
ExtractedGames == IF day_result.dates = <<>> THEN <<>> ELSE games_out

Init ==
  /\ timezone \in TimeZones
  /\ pc = "loop"
  /\ i = 1
  /\ result = <<>>
  /\ day_result = NoRange
  /\ game_idx = 0
  /\ games_out = <<>>
  /\ net = NoCall
  /\ outcome = "running"
  /\ fetches = [k \in 1..Len(offsets) |-> "none"]
  /\ enriched = None
  /\ decoded = [k \in 1..Len(offsets) |-> None]
  /\ served = [k \in 1..Len(offsets) |-> <<>>]
  /\ issued = <<>>
  /\ answered = <<>>
  /\ variant = "none"
  /\ days = <<>>
  /\ focused_day = 0
  /\ focused_index = 0
  /\ fault = "none"
  /\ run = NoRun

\* let day_text = reqwest::get(&day_api) ... : the request of day offsets[i].
RequestDay ==
  /\ pc = "loop"
  /\ i <= Len(offsets)
  /\ net' = [kind |-> "schedule", date |-> offsets[i]]
  /\ pc' = "await_day"
  /\ UNCHANGED <<timezone, i, result, day_result, game_idx, games_out,
                 outcome, fetches, enriched>>
  /\ issued' = Append(issued, [kind |-> "schedule", date |-> offsets[i]])
  /\ UNCHANGED <<decoded, served, answered>>
  /\ UNCHANGED navVars

\* reqwest::get(..).await?.text().await? fails: `?` returns the error.
DayFetchFails ==
  /\ pc = "await_day"
  /\ net' = NoCall
  /\ fetches' = [fetches EXCEPT ![i] = "failed"]
  /\ outcome' = "Err"
  /\ pc' = "returned"
  /\ UNCHANGED <<timezone, i, result, day_result, game_idx, games_out, enriched>>
  /\ answered' = Append(answered, [call |-> net, ok |-> FALSE])
  /\ UNCHANGED <<decoded, served, issued>>
  /\ UNCHANGED navVars

\* serde_json::from_str::<MlbGameRange>(&day_text).unwrap() on a text that
\* is not an MlbGameRange: the unwrap panics.
DayPayloadMismatch ==
  /\ pc = "await_day"
  /\ net' = NoCall
  /\ fetches' = [fetches EXCEPT ![i] = "mismatch"]
  /\ outcome' = "panic"
  /\ pc' = "panicked"
  /\ UNCHANGED <<timezone, i, result, day_result, game_idx, games_out, enriched>>
  /\ answered' = Append(answered, [call |-> net, ok |-> TRUE])
  /\ UNCHANGED <<decoded, served, issued>>
  /\ UNCHANGED navVars

\* The text arrives and decodes: extract_client_info(day_result, &timezone)
\* is entered.
DayDecoded ==
  /\ pc = "await_day"
  /\ \E payload \in Payloads :
       /\ day_result' = payload
       /\ decoded' = [decoded EXCEPT ![i] = Some(payload)]
       /\ served' = [served EXCEPT ![i] = IF payload.dates = <<>> THEN <<>>
                                          ELSE payload.dates[1].games]
  /\ answered' = Append(answered, [call |-> net, ok |-> TRUE])
  /\ UNCHANGED issued
  /\ net' = NoCall
  /\ fetches' = [fetches EXCEPT ![i] = "ok"]
  /\ game_idx' = 0
  /\ games_out' = <<>>
  /\ pc' = "extract"
  /\ UNCHANGED <<timezone, i, result, outcome, enriched>>
  /\ UNCHANGED navVars

\* One turn of `for game in &day_results.dates[0].games` for a game without
\* an article: no call is made.
EnrichWithoutArticle ==
  /\ pc = "extract"
  /\ day_result.dates # <<>>
  /\ game_idx < Len(day_result.dates[1].games)
  /\ ~HasArticle(CurrentGame)
  /\ games_out' = Append(games_out, RecordWithoutArticle(CurrentGame, timezone))
  /\ enriched' = Some([game |-> CurrentGame, recap |-> FALSE,
                       image_ok |-> FALSE, returned |-> "record",
                       record |-> Some(RecordWithoutArticle(CurrentGame, timezone))])
  /\ game_idx' = game_idx + 1
  /\ UNCHANGED <<timezone, pc, i, result, day_result, net, outcome, fetches>>
  /\ UNCHANGED <<decoded, served, issued, answered>>
  /\ UNCHANGED navVars

\* RequestImage issued while the schedule of the day is still awaited, for
\* an image known beforehand.
RequestImage_Speculative ==
  /\ pc = "await_day"
  /\ net' = [kind |-> "image", date |-> offsets[i], src |-> Catalogue[3].src]
  /\ pc' = "await_image"
  /\ UNCHANGED <<timezone, i, result, day_result, game_idx, games_out,
                 outcome, fetches, enriched>>
  /\ issued' = Append(issued, [kind |-> "image", date |-> offsets[i],
                                 game |-> 0, src |-> Catalogue[3].src])
  /\ UNCHANGED <<decoded, served, answered>>
  /\ UNCHANGED navVars

\* reqwest::get(&article.image.cuts[0].src) for a game with an article.
RequestImage ==
  /\ pc = "extract"
  /\ day_result.dates # <<>>
  /\ game_idx < Len(day_result.dates[1].games)
  /\ HasArticle(CurrentGame)
  /\ net' = [kind |-> "image", date |-> offsets[i], src |-> CurrentGame.src]
  /\ pc' = "await_image"
  /\ UNCHANGED <<timezone, i, result, day_result, game_idx, games_out,
                 outcome, fetches, enriched>>
  /\ issued' = Append(issued, [kind |-> "image", date |-> offsets[i],
                                 game |-> game_idx, src |-> CurrentGame.src])
  /\ UNCHANGED <<decoded, served, answered>>
  /\ UNCHANGED navVars

\* The image bytes arrive: (Some(img_bytes), article.headline) is pushed.
ImageArrives ==
  /\ pc = "await_image"
  /\ net' = NoCall
  /\ games_out' = Append(games_out, RecordWithImage(CurrentGame, ImageBytes(net.src)))
  /\ enriched' = Some([game |-> CurrentGame, recap |-> TRUE,
                       image_ok |-> TRUE, returned |-> "record",
                       record |-> Some(RecordWithImage(CurrentGame, ImageBytes(net.src)))])
  /\ game_idx' = game_idx + 1
  /\ pc' = "extract"
  /\ UNCHANGED <<timezone, i, result, day_result, outcome, fetches>>
  /\ answered' = Append(answered, [call |-> net, ok |-> TRUE])
  /\ UNCHANGED <<decoded, served, issued>>
  /\ UNCHANGED navVars

\* reqwest::get(..).await?.bytes().await? fails: `?` returns the error from
\* extract_client_info, and the `?` of get_games returns it from get_games.
ImageFetchFails ==
  /\ pc = "await_image"
  /\ net' = NoCall
  /\ enriched' = Some([game |-> CurrentGame, recap |-> TRUE,
                       image_ok |-> FALSE, returned |-> "Err",
                       record |-> None])
  /\ outcome' = "Err"
  /\ pc' = "returned"
  /\ UNCHANGED <<timezone, i, result, day_result, game_idx, games_out, fetches>>
  /\ answered' = Append(answered, [call |-> net, ok |-> FALSE])
  /\ UNCHANGED <<decoded, served, issued>>
  /\ UNCHANGED navVars

\* ExtractReturns that drops a day whose payload has no dates entry.
ExtractReturns_DropsEmptyDay ==
  /\ pc = "extract"
  /\ IF day_result.dates = <<>> THEN TRUE
       ELSE game_idx = Len(day_result.dates[1].games)
  /\ result' = IF day_result.dates = <<>> THEN result
                ELSE Append(result, DayEntry(offsets[i], ExtractedGames))
  /\ i' = i + 1
  /\ day_result' = NoRange
  /\ game_idx' = 0
  /\ games_out' = <<>>
  /\ pc' = "loop"
  /\ UNCHANGED <<timezone, net, outcome, fetches, enriched>>
  /\ UNCHANGED <<decoded, served, issued, answered>>
  /\ UNCHANGED navVars

\* ExtractReturns that does not wait: the day is pushed with the records
\* made so far, an image still being awaited.
ExtractReturns_NoJoin ==
  /\ pc \in {"extract", "await_image"}
  /\ result' = Append(result, DayEntry(offsets[i], ExtractedGames))
  /\ i' = i + 1
  /\ day_result' = NoRange
  /\ game_idx' = 0
  /\ games_out' = <<>>
  /\ pc' = "loop"
  /\ UNCHANGED <<timezone, net, outcome, fetches, enriched>>
  /\ UNCHANGED <<decoded, served, issued, answered>>
  /\ UNCHANGED navVars

\* extract_client_info returns and get_games pushes: result.push(..).
ExtractReturns ==
  /\ pc = "extract"
  /\ IF day_result.dates = <<>> THEN TRUE
       ELSE game_idx = Len(day_result.dates[1].games)
  /\ result' = Append(result, DayEntry(offsets[i], ExtractedGames))
  /\ i' = i + 1
  /\ day_result' = NoRange
  /\ game_idx' = 0
  /\ games_out' = <<>>
  /\ pc' = "loop"
  /\ UNCHANGED <<timezone, net, outcome, fetches, enriched>>
  /\ UNCHANGED <<decoded, served, issued, answered>>
  /\ UNCHANGED navVars

\* Ok(result)
GetGamesReturns ==
  /\ pc = "loop"
  /\ i > Len(offsets)
  /\ outcome' = "Ok"
  /\ pc' = "returned"
  /\ UNCHANGED <<timezone, i, result, day_result, game_idx, games_out, net,
                 fetches, enriched>>
  /\ UNCHANGED <<decoded, served, issued, answered>>
  /\ UNCHANGED navVars

---------------------------------------------------------------------------
(* The rows: MlbUiInfo::init (gl_mlb.rs) and the head of main (main.rs).   *)

\* DayRowInfo::new(games): DayRowInfo { games, begin_index: 0 }.  `date` is
\* the history field of the entry the row was built from.
DayRowInfo_new(entry) ==
  [games |-> entry.games, begin_index |-> 0, date |-> entry.date]

\* UiRows without the .rev(): the rows in the order of the entries.
UiRows_NoRev(res) ==
  [r \in 1..Len(res) |-> DayRowInfo_new(res[r])]

\* for day in result.values().rev() { .. days.push(DayRowInfo::new(games)) }:
\* one row per entry, the last entry first.
UiRows(res) ==
  [r \in 1..Len(res) |-> DayRowInfo_new(res[Len(res) + 1 - r])]

Variants == {"gl_mlb", "main"}

\* The rows are built from what get_games returned; the cursor starts at
\* focused_day: 0, focused_index: 0.
UiInit ==
  /\ pc = "returned"
  /\ outcome = "Ok"
  /\ \E v \in Variants : variant' = v
  /\ days' = UiRows(result)
  /\ focused_day' = 0
  /\ focused_index' = 0
  /\ pc' = "ui"
  /\ UNCHANGED <<timezone, i, result, day_result, game_idx, games_out, net,
                 outcome, fetches, enriched, decoded, served, issued, answered,
                 fault, run>>

---------------------------------------------------------------------------
(* Focus navigation.                                                       *)

Directions == {"Left", "Right", "Up", "Down"}

\* The navigation state as one value.
Info == [days |-> days, focused_day |-> focused_day, focused_index |-> focused_index]

\* let day = &mut info.days[info.focused_day]: the index panics when there
\* is no such row.
move_focus_panics(info) == info.focused_day >= Len(info.days)

\* FocusLeft that never moves the window back.
FocusLeft_NoScroll(info) ==
  IF info.focused_index > 0 THEN [info EXCEPT !.focused_index = @ - 1] ELSE info

\* FocusRight that moves the window without looking at the row's length.
FocusRight_ScrollAlways(info, page) ==
  IF info.focused_index < page - 1
    THEN [info EXCEPT !.focused_index = @ + 1]
    ELSE [info EXCEPT !.days[info.focused_day + 1].begin_index = @ + 1]

\* FocusUp that also takes the cursor back to the first column.
FocusUp_ResetsColumn(info) ==
  IF info.focused_day > 0
    THEN [info EXCEPT !.focused_day = @ - 1, !.focused_index = 0]
    ELSE info

\* FocusLeft that takes the cursor back to the first column at once.
FocusLeft_ColumnToStart(info) ==
  LET d == info.focused_day + 1
  IN IF info.focused_index > 0
       THEN [info EXCEPT !.focused_index = 0]
       ELSE IF info.days[d].begin_index > 0
              THEN [info EXCEPT !.days[d].begin_index = @ - 1]
              ELSE info

\* FocusRight that never moves the window on.
FocusRight_NoScroll(info, page) ==
  IF info.focused_index < page - 1
    THEN [info EXCEPT !.focused_index = @ + 1]
    ELSE info

\* FocusDown that does not look at the number of rows.
FocusDown_NoBound(info) == [info EXCEPT !.focused_day = @ + 1]

\* The four arms of the match in MlbGlUi::move_focus.
\* FocusDirection::Left
FocusLeft(info) ==
  LET d == info.focused_day + 1
  IN IF info.focused_index > 0
       THEN [info EXCEPT !.focused_index = @ - 1]
       ELSE IF info.days[d].begin_index > 0
              THEN [info EXCEPT !.days[d].begin_index = @ - 1]
              ELSE info

\* FocusDirection::Right; `page` is X_PAGE_SIZE.
FocusRight(info, page) ==
  LET d == info.focused_day + 1
  IN IF info.focused_index < page - 1
       THEN [info EXCEPT !.focused_index = @ + 1]
       ELSE IF info.days[d].begin_index + page < Len(info.days[d].games)
              THEN [info EXCEPT !.days[d].begin_index = @ + 1]
              ELSE info

\* FocusDirection::Up
FocusUp(info) ==
  IF info.focused_day > 0 THEN [info EXCEPT !.focused_day = @ - 1] ELSE info

\* FocusDirection::Down
FocusDown(info) ==
  IF info.focused_day < Len(info.days) - 1
    THEN [info EXCEPT !.focused_day = @ + 1]
    ELSE info

\* move_focus with Right bounded by the page size instead of the last column.
move_focus_RightOffByOne(info, direction, page) ==
  CASE direction = "Left" -> FocusLeft(info)
    [] direction = "Right" ->
         IF info.focused_index < page
           THEN [info EXCEPT !.focused_index = @ + 1]
           ELSE FocusRight(info, page)
    [] direction = "Up" -> FocusUp(info)
    [] direction = "Down" -> FocusDown(info)

\* move_focus scrolling while begin_index + page <= len.
move_focus_ScrollOffByOne(info, direction, page) ==
  LET d == info.focused_day + 1
  IN CASE direction = "Left" -> FocusLeft(info)
       [] direction = "Right" ->
            IF info.focused_index < page - 1
              THEN [info EXCEPT !.focused_index = @ + 1]
              ELSE IF info.days[d].begin_index + page <= Len(info.days[d].games)
                     THEN [info EXCEPT !.days[d].begin_index = @ + 1]
                     ELSE info
       [] direction = "Up" -> FocusUp(info)
       [] direction = "Down" -> FocusDown(info)

\* move_focus with Down bounded by the number of rows instead of the last row.
move_focus_DownOffByOne(info, direction, page) ==
  CASE direction = "Left" -> FocusLeft(info)
    [] direction = "Right" -> FocusRight(info, page)
    [] direction = "Up" -> FocusUp(info)
    [] direction = "Down" ->
         IF info.focused_day < Len(info.days)
           THEN [info EXCEPT !.focused_day = @ + 1]
           ELSE info

\* move_focus putting the focus back on the first column when it scrolls.
move_focus_ScrollResetsColumn(info, direction, page) ==
  LET d == info.focused_day + 1
  IN CASE direction = "Left" -> FocusLeft(info)
       [] direction = "Right" ->
            IF info.focused_index < page - 1
              THEN [info EXCEPT !.focused_index = @ + 1]
              ELSE IF info.days[d].begin_index + page < Len(info.days[d].games)
                     THEN [info EXCEPT !.days[d].begin_index = @ + 1,
                                       !.focused_index = 0]
                     ELSE info
       [] direction = "Up" -> FocusUp(info)
       [] direction = "Down" -> FocusDown(info)

\* move_focus scrolling by rotating the games of the row under the window.
move_focus_ScrollRotatesRow(info, direction, page) ==
  LET d == info.focused_day + 1
  IN CASE direction = "Left" -> FocusLeft(info)
       [] direction = "Right" ->
            IF info.focused_index < page - 1
              THEN [info EXCEPT !.focused_index = @ + 1]
              ELSE IF info.days[d].begin_index + page < Len(info.days[d].games)
                     THEN [info EXCEPT !.days[d].games =
                                          Append(Tail(@), Head(@))]
                     ELSE info
       [] direction = "Up" -> FocusUp(info)
       [] direction = "Down" -> FocusDown(info)

\* MlbGlUi::move_focus: match direction { .. }; `page` is X_PAGE_SIZE.
move_focus(info, direction, page) ==
  CASE direction = "Left" -> FocusLeft(info)
    [] direction = "Right" -> FocusRight(info, page)
    [] direction = "Up" -> FocusUp(info)
    [] direction = "Down" -> FocusDown(info)

\* main_keyboard_input whose Right arm stops the column one short of the
\* last one.
main_keyboard_input_ShortPage(info, key, page) ==
  IF key = "Right" THEN FocusRight(info, page - 1)
                   ELSE move_focus(info, key, page)

\* main's WindowEvent::KeyboardInput arm: let day = &mut days[focused_day]
\* is evaluated for every key, then the arrow keys are matched; `page` is
\* PAGE_SIZE.
main_keyboard_input_panics(info) == info.focused_day >= Len(info.days)

main_keyboard_input(info, key, page) ==
  LET d == info.focused_day + 1
      day == info.days[d]
  IN CASE key = "Left" ->
            IF info.focused_index > 0
              THEN [info EXCEPT !.focused_index = @ - 1]
              ELSE IF day.begin_index > 0
                     THEN [info EXCEPT !.days[d].begin_index = @ - 1]
                     ELSE info
       [] key = "Right" ->
            IF info.focused_index < page - 1
              THEN [info EXCEPT !.focused_index = @ + 1]
              ELSE IF day.begin_index + page < Len(day.games)
                     THEN [info EXCEPT !.days[d].begin_index = @ + 1]
                     ELSE info
       [] key = "Up" ->
            IF info.focused_day > 0
              THEN [info EXCEPT !.focused_day = @ - 1]
              ELSE info
       [] key = "Down" ->
            IF info.focused_day < Len(info.days) - 1
              THEN [info EXCEPT !.focused_day = @ + 1]
              ELSE info
       [] OTHER -> info

\* The drawing loop at the end of main's event closure:
\* for i in day.begin_index..(day.begin_index + PAGE_SIZE) { &mut day.games[i] }
main_draw_panics(info, page) ==
  \E r \in 1..Len(info.days) :
    info.days[r].begin_index + page > Len(info.days[r].games)

\* MlbGlUi::draw: the same loop over the rows, then, with a text brush,
\* days[focused_day].games[focused_index + begin_index].
draw_panics(info, text_brush, page) ==
  \/ \E r \in 1..Len(info.days) :
       info.days[r].begin_index + page > Len(info.days[r].games)
  \/ /\ text_brush
     /\ \/ info.focused_day >= Len(info.days)
        \/ info.focused_index + info.days[info.focused_day + 1].begin_index
             >= Len(info.days[info.focused_day + 1].games)

\* The history of Right keys after one more key.
RunAfter(key) ==
  IF key = "Right"
    THEN IF run.n = 0
           THEN [n |-> 1, index0 |-> focused_index,
                 begin0 |-> days[focused_day + 1].begin_index,
                 pristine |-> run.pristine]
           ELSE [run EXCEPT !.n = @ + 1]
    ELSE [n |-> 0, index0 |-> 0, begin0 |-> 0, pristine |-> FALSE]

\* A call of MlbGlUi::move_focus(direction).
MoveFocus(direction) ==
  /\ pc = "ui"
  /\ variant = "gl_mlb"
  /\ fault = "none"
  /\ direction = "Right" => run.n < MaxRun
  /\ IF move_focus_panics(Info)
       THEN /\ fault' = "move_focus"
            /\ UNCHANGED <<days, focused_day, focused_index, run>>
       ELSE /\ days' = move_focus(Info, direction, X_PAGE_SIZE).days
            /\ focused_day' = move_focus(Info, direction, X_PAGE_SIZE).focused_day
            /\ focused_index' = move_focus(Info, direction, X_PAGE_SIZE).focused_index
            /\ run' = RunAfter(direction)
            /\ fault' = fault
  /\ UNCHANGED aggVars
  /\ UNCHANGED variant

\* A call of MlbGlUi::draw.
Draw ==
  /\ pc = "ui"
  /\ variant = "gl_mlb"
  /\ fault = "none"
  /\ \E text_brush \in BOOLEAN :
       fault' = IF draw_panics(Info, text_brush, X_PAGE_SIZE) THEN "draw" ELSE fault
  /\ UNCHANGED aggVars
  /\ UNCHANGED <<variant, days, focused_day, focused_index, run>>

\* The events main's closure receives: an arrow key released, another key,
\* or an event that is no KeyboardInput.
MainEvents == Directions \cup {"OtherKey", "NotKey"}

\* One run of main's event closure: the key is handled, then the frame is
\* drawn.
MainEvent(event) ==
  /\ pc = "ui"
  /\ variant = "main"
  /\ fault = "none"
  /\ event = "Right" => run.n < MaxRun
  /\ IF event # "NotKey" /\ main_keyboard_input_panics(Info)
       THEN /\ fault' = "main_keyboard_input"
            /\ UNCHANGED <<days, focused_day, focused_index, run>>
       ELSE LET next == IF event \in Directions
                          THEN main_keyboard_input(Info, event, PAGE_SIZE)
                          ELSE Info
            IN /\ days' = next.days
               /\ focused_day' = next.focused_day
               /\ focused_index' = next.focused_index
               /\ run' = IF event \in Directions THEN RunAfter(event) ELSE run
               /\ fault' = IF main_draw_panics(next, PAGE_SIZE)
                             THEN "main_draw" ELSE fault
  /\ UNCHANGED aggVars
  /\ UNCHANGED variant

---------------------------------------------------------------------------
(* Specifications.                                                         *)

Next ==
  \/ RequestDay
  \/ DayFetchFails
  \/ DayPayloadMismatch
  \/ DayDecoded
  \/ EnrichWithoutArticle
  \/ RequestImage
  \/ ImageArrives
  \/ ImageFetchFails
  \/ ExtractReturns
  \/ GetGamesReturns
  \/ UiInit

Spec == Init /\ [][Next]_vars

\* Spec with every call issued answered in the end (with bytes or with an
\* error) and the program run whenever it can take a step.
FairSpec == Init /\ [][Next]_vars /\ WF_vars(Next)

\* The records of a row of n games, as extract_client_info builds them with
\* every image retrieved.
RowRecords(n, tz) ==
  [g \in 1..n |->
     LET game == Catalogue[((g - 1) % Len(Catalogue)) + 1]
     IN IF HasArticle(game) THEN RecordWithImage(game, ImageBytes(game.src))
                             ELSE RecordWithoutArticle(game, tz)]

\* dss_mlb::get_games() as MlbUiInfo::init and main call it: a map with one
\* entry per day that survived, in date order.  f[k] is the number of games
\* of the day offsets[k], -1 when that day was dropped.
CallerResult(f, tz) ==
  LET kept == SelectSeq([k \in 1..Len(offsets) |-> k], LAMBDA k : f[k] >= 0)
  IN [j \in 1..Len(kept) |-> DayEntry(offsets[kept[j]], RowRecords(f[kept[j]], tz))]

NavInit ==
  /\ timezone = 0
  /\ pc = "ui"
  /\ i = 1
  /\ \E f \in [1..Len(offsets) -> -1..MaxRowLen] : result = CallerResult(f, timezone)
  /\ day_result = NoRange
  /\ game_idx = 0
  /\ games_out = <<>>
  /\ net = NoCall
  /\ outcome = "Ok"
  /\ fetches = [k \in 1..Len(offsets) |-> "none"]
  /\ enriched = None
  /\ decoded = [k \in 1..Len(offsets) |-> None]
  /\ served = [k \in 1..Len(offsets) |-> <<>>]
  /\ issued = <<>>
  /\ answered = <<>>
  /\ variant \in Variants
  /\ days = UiRows(result)
  /\ focused_day = 0
  /\ focused_index = 0
  /\ fault = "none"
  /\ run = NoRun

NavNext ==
  \/ \E direction \in Directions : MoveFocus(direction)
  \/ Draw
  \/ \E event \in MainEvents : MainEvent(event)

NavSpec == NavInit /\ [][NavNext]_vars

---------------------------------------------------------------------------
(* Properties.                                                             *)

\* The page size of the front end that owns the rows.
PageSize == IF variant = "main" THEN PAGE_SIZE ELSE X_PAGE_SIZE

FocusedDayExists == focused_day < Len(days)
FocusedDay == days[focused_day + 1]

Min(a, b) == IF a < b THEN a ELSE b

Count(f, v) == Cardinality({k \in DOMAIN f : f[k] = v})

C2_PartialFailureContained ==
  ( /\ pc \in {"returned", "panicked", "ui"}
    /\ Count(fetches, "failed") = 1
    /\ Count(fetches, "ok") = Len(offsets) - 1 )
  => (outcome = "Ok" /\ Len(result) = Len(offsets) - 1)

\* C3 as claimed: every enrichment returns a record with a non-empty title,
\* without image when the game has no recap or the image fetch failed.
C3_EnrichmentAlwaysSucceeds ==
  enriched # None =>
    /\ enriched[1].returned = "record"
    /\ Len(enriched[1].record[1].title) > 0
    /\ (~enriched[1].recap \/ ~enriched[1].image_ok)
         => enriched[1].record[1].image = None

\* C4: the focused column stays inside the page, 0 <= focused_index < P.
C4_FocusedColumnInPage ==
  pc = "ui" => (0 <= focused_index /\ focused_index < PageSize)

\* C4 witness: Right was pressed on the last column and Left on the first.
C4_Witness ==
  /\ pc = "ui"
  /\ variant = "gl_mlb"
  /\ fault = "none"
  /\ focused_index = X_PAGE_SIZE - 1
  /\ run.n >= 1
  /\ run.index0 = X_PAGE_SIZE - 1
  /\ ~run.pristine

\* C5: every row's window stays inside the row: begin_index is between 0
\* and len - P on a row of at least P games, and 0 on a shorter row.
C5_WindowInRow ==
  pc = "ui" =>
    \A r \in 1..Len(days) :
      IF Len(days[r].games) >= PageSize
        THEN 0 <= days[r].begin_index
             /\ days[r].begin_index <= Len(days[r].games) - PageSize
        ELSE days[r].begin_index = 0

\* C5 witness: Right was pressed twice with the window at its last
\* position, on a row longer than the page.
C5_Witness ==
  /\ pc = "ui"
  /\ fault = "none"
  /\ FocusedDayExists
  /\ Len(FocusedDay.games) > PageSize
  /\ FocusedDay.begin_index = Len(FocusedDay.games) - PageSize
  /\ run.n >= 2
  /\ run.begin0 = FocusedDay.begin_index
  /\ run.index0 = PageSize - 1

\* The cursor and every window are where the rows were built with them.
AtInitialState ==
  /\ focused_day = 0
  /\ focused_index = 0
  /\ \A r \in 1..Len(days) : days[r].begin_index = 0

NavUnchanged ==
  /\ days' = days
  /\ focused_day' = focused_day
  /\ focused_index' = focused_index
  /\ fault' = "none"

\* C6: move_focus at a boundary changes nothing and raises nothing: Left
\* and Up in the initial state, Down on the last row, Right on the last
\* column with the window at its last position.
C6_BoundaryNoOps ==
  [][ (FocusedDayExists /\ fault = "none") =>
        /\ (MoveFocus("Left") /\ AtInitialState) => NavUnchanged
        /\ (MoveFocus("Up") /\ AtInitialState) => NavUnchanged
        /\ (MoveFocus("Down") /\ focused_day = Len(days) - 1) => NavUnchanged
        /\ ( /\ MoveFocus("Right")
             /\ focused_index = X_PAGE_SIZE - 1
             /\ FocusedDay.begin_index + X_PAGE_SIZE >= Len(FocusedDay.games) )
           => NavUnchanged ]_vars

\* C6 witness: on the last of three rows, Right was pressed on the last
\* column with the window of a long row at its last position.
C6_Witness ==
  /\ pc = "ui"
  /\ variant = "gl_mlb"
  /\ fault = "none"
  /\ Len(days) = 3
  /\ focused_day = 2
  /\ focused_index = X_PAGE_SIZE - 1
  /\ Len(FocusedDay.games) = X_PAGE_SIZE + 1
  /\ FocusedDay.begin_index = 1
  /\ run.n >= 1
  /\ run.begin0 = 1

\* C7: after k Right keys in a row that started on the last column of a row
\* longer than the page with the window at b, the focus is still on the
\* last column and the window is at min(b + k, len - P).
C7_WindowScroll ==
  ( /\ pc = "ui"
    /\ FocusedDayExists
    /\ run.n > 0
    /\ run.index0 = PageSize - 1
    /\ Len(FocusedDay.games) > PageSize )
  => /\ focused_index = PageSize - 1
     /\ FocusedDay.begin_index
          = Min(run.begin0 + run.n, Len(FocusedDay.games) - PageSize)
     /\ FocusedDay.begin_index <= Len(FocusedDay.games) - PageSize

\* C7 witness: three Right keys from the last column of a row of P + 2
\* games whose window was at 0: the window stopped at 2.
C7_Witness ==
  /\ pc = "ui"
  /\ variant = "gl_mlb"
  /\ FocusedDayExists
  /\ Len(FocusedDay.games) = X_PAGE_SIZE + 2
  /\ run.n = 3
  /\ run.index0 = X_PAGE_SIZE - 1
  /\ run.begin0 = 0
  /\ FocusedDay.begin_index = 2

\* C8 as claimed, on the scenario of the claim: the first row has 3 games
\* and the page 5 columns; after three Right keys from the initial state,
\* and after any further one, the focus is on column 2 and the window at 0.
C8_ShortDayClamp ==
  ( /\ pc = "ui"
    /\ variant = "gl_mlb"
    /\ Len(days) > 0
    /\ run.pristine
    /\ focused_day = 0
    /\ Len(days[1].games) = 3
    /\ run.n >= 3 )
  => (focused_index = 2 /\ days[1].begin_index = 0)

\* C9 as claimed: on a board without rows no key raises a fault.
C9_EmptyBoardGuarded ==
  (pc = "ui" /\ Len(days) = 0)
    => fault \notin {"move_focus", "main_keyboard_input"}

\* C10: whatever keys were handled, the rows hold the days and the game
\* records get_games returned: same number of rows, same records in the
\* same order in each.
C10_DataUntouched ==
  pc = "ui" =>
    [r \in 1..Len(days) |-> days[r].games]
      = [r \in 1..Len(result) |-> result[Len(result) + 1 - r].games]

\* C10 witness: the focus was moved down and right and a window scrolled.
C10_Witness ==
  /\ pc = "ui"
  /\ variant = "gl_mlb"
  /\ fault = "none"
  /\ focused_day = 1
  /\ focused_index = X_PAGE_SIZE - 1
  /\ FocusedDayExists
  /\ FocusedDay.begin_index = 2
  /\ days[1].begin_index = 1

---------------------------------------------------------------------------
(* Properties of the aggregation, continued.                               *)

\* get_games is over: it returned, or panicked, or its rows were built.
GetGamesOver == pc \in {"returned", "panicked", "ui"}

\* The index in `offsets` of a date.
DayIndex(date) == CHOOSE k \in 1..Len(offsets) : offsets[k] = date

\* The image requests issued.
ImageRequests == {p \in 1..Len(issued) : issued[p].kind = "image"}

\* C11 as claimed: every day whose schedule was fetched has, once get_games
\* is done with it, one record per game the schedule answered with, in the
\* same order, whatever the outcome of the image fetches.
C11_GamesKeptInOrder ==
  \A k \in 1..Len(offsets) :
    (fetches[k] = "ok" /\ (i > k \/ GetGamesOver)) =>
      \E e \in 1..Len(result) :
        /\ result[e].date = offsets[k]
        /\ Len(result[e].games) = Len(served[k])
        /\ \A g \in 1..Len(served[k]) :
             result[e].games[g].title = served[k][g].away \o " at " \o served[k][g].home

\* C12 as claimed: a game with a recap whose image fetch failed gets a
\* record without image and with the summary "Live {local time}", and
\* get_games does not fail.
C12_ImageFailureDegrades ==
  (enriched # None /\ enriched[1].recap /\ ~enriched[1].image_ok) =>
    /\ enriched[1].returned = "record"
    /\ enriched[1].record[1].image = None
    /\ enriched[1].record[1].summary
         = "Live " \o LocalTime(enriched[1].game.gameDate, timezone)
    /\ outcome # "Err"

\* C13 as claimed: a payload that is no MlbGameRange drops its day and
\* nothing else: get_games neither panics nor fails.
C13_MismatchDropsDay ==
  (\E k \in 1..Len(offsets) : fetches[k] = "mismatch") =>
    (outcome \notin {"panic", "Err"} /\ pc # "panicked")

\* C14 as claimed: when get_games is over, a schedule request was issued
\* for every offset, whatever became of the other days.
C14_EveryDayRequested ==
  GetGamesOver =>
    \A k \in 1..Len(offsets) :
      \E p \in 1..Len(issued) :
        issued[p].kind = "schedule" /\ issued[p].date = offsets[k]

C19_RecapRecord ==
  (enriched # None /\ enriched[1].recap /\ enriched[1].image_ok) =>
    /\ enriched[1].returned = "record"
    /\ enriched[1].record[1].image = Some(ImageBytes(enriched[1].game.src))
    /\ enriched[1].record[1].summary = enriched[1].game.headline
    /\ enriched[1].record[1].title
         = enriched[1].game.away \o " at " \o enriched[1].game.home
    /\ \E p \in ImageRequests : issued[p].src = enriched[1].game.src

\* C19 witness: the image of the game with the headline "Cubs walk off"
\* arrived.
C19_Witness ==
  /\ enriched # None
  /\ enriched[1].recap
  /\ enriched[1].image_ok
  /\ enriched[1].record[1].summary = "Cubs walk off"
  /\ enriched[1].record[1].title = "Cubs at Reds"
  /\ pc = "extract"

\* C20: an image request is issued only for a game of a day whose schedule
\* request was issued before it, completed and decoded.
C20_NestedFanOut ==
  /\ \A p \in ImageRequests :
       /\ fetches[DayIndex(issued[p].date)] = "ok"
       /\ \E q \in 1..(p - 1) :
            issued[q].kind = "schedule" /\ issued[q].date = issued[p].date
  /\ net.kind = "image" => (fetches[i] = "ok" /\ day_result.dates # <<>>)

\* C20 witness: the image of a game of the last day is awaited.
C20_Witness ==
  /\ net.kind = "image"
  /\ net.date = offsets[Len(offsets)]
  /\ pc = "await_image"

---------------------------------------------------------------------------
(* Properties of the navigation, continued.                                *)

\* A key handled by either front end.
KeyStep(key) == MoveFocus(key) \/ MainEvent(key)

\* What the front end in use makes of the navigation state on a key.
Handled(key) ==
  IF variant = "main" THEN main_keyboard_input(Info, key, PAGE_SIZE)
                      ELSE move_focus(Info, key, X_PAGE_SIZE)

\* Every row of `next` but the focused one is as in `info`, and no row came
\* or went.
OtherRowsUnchanged(info, next) ==
  /\ Len(next.days) = Len(info.days)
  /\ \A r \in 1..Len(info.days) :
       r # info.focused_day + 1 => next.days[r] = info.days[r]

\* Every window of `next` is where it is in `info`.
WindowsUnchanged(info, next) ==
  /\ Len(next.days) = Len(info.days)
  /\ \A r \in 1..Len(info.days) :
       next.days[r].begin_index = info.days[r].begin_index

\* `next` is `info` after Left, as claimed.
MovedLeft(info, next) ==
  LET d == info.focused_day + 1
  IN /\ next.focused_day = info.focused_day
     /\ OtherRowsUnchanged(info, next)
     /\ IF info.focused_index > 0
          THEN /\ next.focused_index = info.focused_index - 1
               /\ WindowsUnchanged(info, next)
          ELSE IF info.days[d].begin_index > 0
                 THEN /\ next.focused_index = 0
                      /\ next.days[d].begin_index = info.days[d].begin_index - 1
                 ELSE /\ next.focused_index = info.focused_index
                      /\ WindowsUnchanged(info, next)

\* `next` is `info` after Right, as claimed, for a page of `page` columns.
MovedRight(info, next, page) ==
  LET d == info.focused_day + 1
  IN /\ next.focused_day = info.focused_day
     /\ OtherRowsUnchanged(info, next)
     /\ IF info.focused_index < page - 1
          THEN /\ next.focused_index = info.focused_index + 1
               /\ WindowsUnchanged(info, next)
          ELSE IF info.days[d].begin_index + page < Len(info.days[d].games)
                 THEN /\ next.focused_index = page - 1
                      /\ next.days[d].begin_index = info.days[d].begin_index + 1
                 ELSE /\ next.focused_index = info.focused_index
                      /\ WindowsUnchanged(info, next)

\* `next` is `info` after Up, as claimed.
MovedUp(info, next) ==
  /\ next.focused_day = IF info.focused_day > 0 THEN info.focused_day - 1
                                                  ELSE info.focused_day
  /\ next.focused_index = info.focused_index
  /\ WindowsUnchanged(info, next)

\* `next` is `info` after Down, as claimed.
MovedDown(info, next) ==
  /\ next.focused_day = IF info.focused_day < Len(info.days) - 1
                          THEN info.focused_day + 1 ELSE info.focused_day
  /\ next.focused_index = info.focused_index
  /\ WindowsUnchanged(info, next)

\* C15: Left on an existing row: the column is decremented when it is > 0;
\* else the window of the focused row moves back by one when it is > 0 and
\* the column stays 0; else nothing changes. The focused row and the
\* windows of the other rows are never changed. This is what the handler
\* computes in every reachable state, and what every Left step does.
C15_MoveLeft ==
  /\ [](FocusedDayExists => MovedLeft(Info, Handled("Left")))
  /\ [][ (KeyStep("Left") /\ FocusedDayExists) => MovedLeft(Info, Info') ]_vars

\* C15 witness: the cursor was taken back to the first column of a row
\* whose window is off its start: the next Left moves the window.
C15_Witness ==
  /\ pc = "ui"
  /\ fault = "none"
  /\ FocusedDayExists
  /\ focused_index = 0
  /\ FocusedDay.begin_index = 1
  /\ run.n = 0

\* C16: Right on an existing row: the column is incremented when it is
\* < P - 1; else the window of the focused row moves on by one when
\* begin + P < len and the column stays P - 1; else nothing changes. The
\* focused row and the windows of the other rows are never changed. This is
\* what the handler computes in every reachable state, and what every Right
\* step does.
C16_MoveRight ==
  /\ [](FocusedDayExists => MovedRight(Info, Handled("Right"), PageSize))
  /\ [][ (KeyStep("Right") /\ FocusedDayExists)
           => MovedRight(Info, Info', PageSize) ]_vars

\* C16 witness: in main, two Right keys from the last column but one: the
\* first moved the cursor, the second the window.
C16_Witness ==
  /\ pc = "ui"
  /\ variant = "main"
  /\ fault = "none"
  /\ FocusedDayExists
  /\ run.n = 2
  /\ run.index0 = PAGE_SIZE - 2
  /\ run.begin0 = 0
  /\ focused_index = PAGE_SIZE - 1
  /\ FocusedDay.begin_index = 1

\* C17: Up changes the focused row only, to the row before when there is
\* one; Down changes the focused row only, to the row after when there is
\* one; the column and every window are as they were. This is what the
\* handler computes in every reachable state, and what every Up and Down
\* step does.
C17_MoveUpDown ==
  /\ [](FocusedDayExists =>
          /\ MovedUp(Info, Handled("Up"))
          /\ MovedDown(Info, Handled("Down")))
  /\ [][ FocusedDayExists =>
           /\ KeyStep("Up") => MovedUp(Info, Info')
           /\ KeyStep("Down") => MovedDown(Info, Info') ]_vars

\* C17 witness: the cursor went down from the last column of a row whose
\* window had moved, to a row whose window had not, and is on the same
\* column.
C17_Witness ==
  /\ pc = "ui"
  /\ variant = "gl_mlb"
  /\ fault = "none"
  /\ Len(days) = 3
  /\ focused_day = 1
  /\ focused_index = X_PAGE_SIZE - 1
  /\ days[1].begin_index = 1
  /\ days[2].begin_index = 0
  /\ run.n = 0

---------------------------------------------------------------------------
(* Properties of the aggregation: joining and termination.                 *)

\* The p-th call issued was answered: it is the p-th call answered.
Answered(p) ==
  /\ p <= Len(answered)
  /\ answered[p].call.kind = issued[p].kind
  /\ answered[p].call.date = issued[p].date

\* C21: when get_games is over no call is outstanding and every call issued
\* was answered; a day has its entry in `result` only when every image
\* request of that day was answered and every game of the day has its
\* record; the rows are built from a returned board only.
C21_JoinBarrier ==
  /\ GetGamesOver =>
       /\ net = NoCall
       /\ Len(answered) = Len(issued)
       /\ \A p \in 1..Len(issued) : Answered(p)
  /\ \A e \in 1..Len(result) :
       /\ \A p \in ImageRequests :
            issued[p].date = result[e].date => Answered(p)
       /\ fetches[DayIndex(result[e].date)] = "ok"
       /\ Len(result[e].games) = Len(served[DayIndex(result[e].date)])
  /\ pc = "ui" => (outcome = "Ok" /\ Len(result) = Len(offsets))

\* C21 witness: get_games returned the board after it had awaited the three
\* schedules and one image for each day.
C21_Witness ==
  /\ pc = "returned"
  /\ outcome = "Ok"
  /\ Cardinality(ImageRequests) = 3
  /\ Len(answered) = Len(offsets) + 3
  /\ Len(result) = Len(offsets)

---------------------------------------------------------------------------
(* Properties of the navigation: the cursor and what is drawn.             *)

\* C22: before any key is handled the cursor is on row 0, column 0 and
\* every window at 0; on a board with rows, focused_day is the index of a
\* row in every state.
C22_FocusedDayValid ==
  pc = "ui" =>
    /\ run = NoRun => AtInitialState
    /\ Len(days) > 0 => (0 <= focused_day /\ focused_day < Len(days))

\* C22 witness: in main, on a board of two rows, the cursor is on the last
\* row after keys were handled.
C22_Witness ==
  /\ pc = "ui"
  /\ variant = "main"
  /\ fault = "none"
  /\ Len(days) = 2
  /\ focused_day = 1
  /\ run.n = 0
  /\ ~run.pristine

\* C23 as claimed: on a board with rows, whatever the lengths of the rows,
\* the focused game exists, every window holds P games, and drawing raises
\* no fault.
C23_DrawInRange ==
  (pc = "ui" /\ Len(days) > 0) =>
    /\ fault \notin {"draw", "main_draw"}
    /\ FocusedDayExists =>
         FocusedDay.begin_index + focused_index < Len(FocusedDay.games)
    /\ \A r \in 1..Len(days) :
         days[r].begin_index + PageSize <= Len(days[r].games)

\* The navigation state after move_focus was called with each key of
\* `keys` in turn.
RECURSIVE Play(_, _)
Play(info, keys) ==
  IF keys = <<>> THEN info
    ELSE Play(move_focus(info, Head(keys), X_PAGE_SIZE), Tail(keys))

\* d times Down, then g times Right.
KeysTo(d, g) == [k \in 1..(d + g) |-> IF k <= d THEN "Down" ELSE "Right"]

\* C24: from the state the rows are built in, every game g of every row d
\* of at least P games is reached by a finite sequence of keys: after d
\* Down and g Right, focused_day = d and begin_index + focused_index = g.
C24_EveryGameReachable ==
  (pc = "ui" /\ variant = "gl_mlb" /\ run = NoRun) =>
    \A d \in 0..(Len(days) - 1) :
      Len(days[d + 1].games) >= X_PAGE_SIZE =>
        \A g \in 0..(Len(days[d + 1].games) - 1) :
          /\ Play(Info, KeysTo(d, g)).focused_day = d
          /\ Play(Info, KeysTo(d, g)).days[d + 1].begin_index
               + Play(Info, KeysTo(d, g)).focused_index = g

\* C24 witness: the cursor is on the last game of the last of three rows,
\* a row longer than the page, below a row shorter than the page.
C24_Witness ==
  /\ pc = "ui"
  /\ variant = "gl_mlb"
  /\ fault = "none"
  /\ Len(days) = 3
  /\ Len(days[2].games) = 2
  /\ focused_day = 2
  /\ Len(FocusedDay.games) = MaxRowLen
  /\ FocusedDay.begin_index + focused_index = MaxRowLen - 1

\* What the front end in use makes of the navigation state `info` on a key.
HandledFrom(info, key) ==
  IF variant = "main" THEN main_keyboard_input(info, key, PAGE_SIZE)
                      ELSE move_focus(info, key, X_PAGE_SIZE)

\* The index, in its row, of the focused game.
AbsoluteIndex(info) ==
  info.days[info.focused_day + 1].begin_index + info.focused_index

\* C25: in every reachable state with a focused row, a Right that changes
\* the state adds one to begin_index + focused_index and a Left that changes
\* the state takes one off; a Left after such a Right restores the sum, and
\* after a Right that moved the window it leaves the column at P - 2 and the
\* window one further than it was.
C25_AbsoluteIndexSteps ==
  (pc = "ui" /\ FocusedDayExists) =>
    /\ HandledFrom(Info, "Right") # Info =>
         /\ AbsoluteIndex(HandledFrom(Info, "Right")) = AbsoluteIndex(Info) + 1
         /\ HandledFrom(HandledFrom(Info, "Right"), "Left") # HandledFrom(Info, "Right")
         /\ AbsoluteIndex(HandledFrom(HandledFrom(Info, "Right"), "Left"))
              = AbsoluteIndex(Info)
         /\ focused_index = PageSize - 1 =>
              /\ HandledFrom(HandledFrom(Info, "Right"), "Left").focused_index
                   = PageSize - 2
              /\ HandledFrom(HandledFrom(Info, "Right"), "Left")
                   .days[focused_day + 1].begin_index
                   = FocusedDay.begin_index + 1
         /\ focused_index < PageSize - 1 =>
              HandledFrom(HandledFrom(Info, "Right"), "Left") = Info
    /\ HandledFrom(Info, "Left") # Info =>
         AbsoluteIndex(HandledFrom(Info, "Left")) = AbsoluteIndex(Info) - 1

\* C25 witness: in main, Left was pressed after a Right that had moved the
\* window of a row of P + 1 games: the column is P - 2 and the window at 1.
C25_Witness ==
  /\ pc = "ui"
  /\ variant = "main"
  /\ fault = "none"
  /\ FocusedDayExists
  /\ Len(FocusedDay.games) = PAGE_SIZE + 1
  /\ focused_index = PAGE_SIZE - 2
  /\ FocusedDay.begin_index = 1
  /\ run.n = 0

---------------------------------------------------------------------------
(* Properties of the aggregation: the board of a run without failure.      *)

\* C26: when get_games returns Ok, `result` has one entry per offset, in
\* the order of `offsets`; the entry of a day whose payload has no dates
\* entry has no game; the entry of any other day has one record per game of
\* the first dates entry, in order, and none for a later entry.
C26_AllDaysInOrder ==
  outcome = "Ok" =>
    /\ Len(result) = Len(offsets)
    /\ \A k \in 1..Len(offsets) :
         /\ result[k].date = offsets[k]
         /\ decoded[k] # None
         /\ IF decoded[k][1].dates = <<>>
              THEN result[k].games = <<>>
              ELSE /\ Len(result[k].games) = Len(decoded[k][1].dates[1].games)
                   /\ \A g \in 1..Len(result[k].games) :
                        result[k].games[g].title
                          = decoded[k][1].dates[1].games[g].away \o " at "
                              \o decoded[k][1].dates[1].games[g].home

\* C26 witness: get_games returned Ok; the first day's payload had no dates
\* entry, the second had two entries, the first of them with two games,
\* and the third one an entry without game.
C26_Witness ==
  /\ pc = "returned"
  /\ outcome = "Ok"
  /\ decoded[1] = Some(NoRange)
  /\ decoded[2] # None
  /\ Len(decoded[2][1].dates) = 2
  /\ Len(decoded[2][1].dates[1].games) = 2
  /\ decoded[2][1].dates[1].games[1].gamePk = 12
  /\ decoded[3] # None
  /\ Len(decoded[3][1].dates) = 1
  /\ decoded[3][1].dates[1].games = <<>>

---------------------------------------------------------------------------
(* The two front ends.                                                     *)

\* C27: in every state either front end reaches, with a focused row or
\* without, main's key arm and move_focus panic together and, when they do
\* not, make the same state of every arrow key, for either page size.
C27_SameTransitions ==
  pc = "ui" =>
    /\ main_keyboard_input_panics(Info) = move_focus_panics(Info)
    /\ ~move_focus_panics(Info) =>
         \A key \in Directions : \A page \in {PAGE_SIZE, X_PAGE_SIZE} :
           main_keyboard_input(Info, key, page) = move_focus(Info, key, page)

\* C27 witness: main has moved the cursor to the second row and its window
\* to 2; the cursor is on the last column.
C27_Witness ==
  /\ pc = "ui"
  /\ variant = "main"
  /\ fault = "none"
  /\ focused_day = 1
  /\ Len(days) >= 2
  /\ days[2].begin_index = 2
  /\ focused_index = PAGE_SIZE - 1
  /\ run.n >= 1

---------------------------------------------------------------------------
(* Termination.                                                            *)

\* C28 as claimed: when every call issued is answered in the end, get_games
\* returns in the end, a board or an error.
C28_EventuallyReturns == <>(pc \in {"returned", "ui"})

===========================================================================
